---- MODULE Spec2Model ----
(***************************************************************************)
(* The page-walk controller of pdf_splitter: the LangGraph workflow that   *)
(* main.py builds from agent_node, tool_node and should_continue           *)
(* (agent.py), driving the tools of tools.py through main.py's             *)
(* ToolExecutor.                                                           *)
(*                                                                         *)
(* Two specifications share the node functions:                            *)
(*   Spec      the compiled graph exactly as main.py wires it: entry point *)
(*             "agent", a conditional edge from "agent" that follows the   *)
(*             value of should_continue (END or "agent"), and the edge     *)
(*             tools -> agent.  No edge enters "tools".                    *)
(*   LoopSpec  the same nodes with the pending agent turn handed to        *)
(*             tool_node whenever should_continue does not end the run;    *)
(*             it closes the cycle through the edge tools -> agent and is  *)
(*             the setting in which tool_node's behaviour is observed.     *)
(*                                                                         *)
(* The functions that are not reached from that graph, or whose contract   *)
(* is about a single call, are studied alone, each from the states in      *)
(* which it can be called:                                                 *)
(*   RunSpec   OllamaPDFSplitterAgent.run (ollama_agent.py)                *)
(*   ReadSpec  read_consecutive_pages                                      *)
(*   AskSpec   the prompt loop of ask_human_for_confirmation               *)
(*   SaveSpec  successive calls of save_document on one output directory   *)
(***************************************************************************)
EXTENDS Integers, Sequences, FiniteSets, TLC

VARIABLES
    pc,                      \* what runs next: a node of the graph ("agent", "tools",
                             \* END, "aborted"), or the position of a function studied alone
    messages,                \* AgentState["messages"]
    current_page_index,      \* AgentState["current_page_index"] (the cursor)
    total_pages,             \* AgentState["total_pages"]
    current_document_pages,  \* AgentState["current_document_pages"]
    saved,                   \* page lists of the save_document calls that wrote a file, in order
    appended,                \* page indices put into an in-progress document, in order
    invoked,                 \* tool calls dispatched by the node or by the run() that ran last
    files,                   \* config.OUTPUT_DIR: the pages written under each file name
    frame                    \* locals of the function studied alone and what its
                             \* environment gave it; NoFrame while the graph runs

vars == <<pc, messages, current_page_index, total_pages,
          current_document_pages, saved, appended, invoked, files, frame>>

---------------------------------------------------------------------------
(* Bounds of the model *)

\* largest page count of a source PDF
MaxPages == 2
\* most tool calls in one agent turn
MaxCalls == 2
\* longest page_indices list an agent passes to save_document
MaxListLen == 2

---------------------------------------------------------------------------
(* Values *)

END == "END"

NoFrame == [chat |-> <<>>]

\* an empty output directory
NoFiles == <<>>

\* sequences over S of length at most n
SeqUpTo(S, n) == UNION {[1..k -> S] : k \in 0..n}

\* page indices an agent may name; MaxPages itself is out of range for every source
PageArgs == 0..MaxPages

\* page_indices an agent may pass to save_document: any list, in any order
PageLists == SeqUpTo(PageArgs, MaxListLen)

\* the metadata an agent passes to save_document in a run: a dict with a title
Metadata == {[type |-> "dict", date |-> <<>>, company |-> <<>>, title |-> <<"A">>]}

\* the tools main.py registers with its ToolExecutor
tools_list == {"read_consecutive_pages", "search_for_similar_cases",
               "ask_human_for_confirmation", "save_document"}

\* what an agent turn may ask for: a tool name with positional arguments
CallShapes ==
    {[name |-> "save_document", args |-> <<p, m>>] : p \in PageLists, m \in Metadata}
    \cup {[name |-> "read_consecutive_pages", args |-> <<i>>] : i \in PageArgs}
    \cup {[name |-> n, args |-> <<"text", "text">>] :
             n \in {"search_for_similar_cases", "extract_metadata"}}
    \cup {[name |-> "ask_human_for_confirmation", args |-> <<"question">>],
          [name |-> "other_tool", args |-> <<>>]}

\* the tool_calls of an AI message: call i carries id i
Turns ==
    {[i \in 1..Len(t) |-> [name |-> t[i].name, id |-> i, args |-> t[i].args]] :
        t \in SeqUpTo(CallShapes, MaxCalls)}

HumanMessage(content) == [type |-> "human", content |-> content]

AIMessage(tool_calls) == [type |-> "ai", tool_calls |-> tool_calls]

ToolMessage(tool_call_id, content) ==
    [type |-> "tool", tool_call_id |-> tool_call_id, content |-> content]

\* what the world answers to one call: the operator's reply, the case store's state
Replies(name) ==
    CASE name = "ask_human_for_confirmation" -> {"yes", "no"}
      [] name = "search_for_similar_cases" -> {"unconfigured", "found", "none", "failed"}
      [] OTHER -> {"-"}

AllReplies == {"yes", "no", "unconfigured", "found", "none", "failed", "-"}

RepliesFor(calls) ==
    {r \in [1..Len(calls) -> AllReplies] :
        \A i \in 1..Len(calls) : r[i] \in Replies(calls[i].name)}

---------------------------------------------------------------------------
(* tools.py *)

\* read_consecutive_pages refusing the last page, which has no next page
read_consecutive_pages_needs_next(current_page, N) ==
    IF 0 <= current_page /\ current_page + 1 < N
    THEN "page and next page"
    ELSE "Error: Current page index is out of bounds."

read_consecutive_pages(current_page, N) ==
    IF 0 <= current_page /\ current_page < N
    THEN IF current_page + 1 < N
         THEN "page and next page"
         ELSE "page and End of Document"
    ELSE "Error: Current page index is out of bounds."

\* the pages whose text the returned content holds, in order
content_pages(current_page, N) ==
    IF 0 <= current_page /\ current_page < N
    THEN IF current_page + 1 < N
         THEN <<current_page, current_page + 1>>
         ELSE <<current_page>>
    ELSE <<>>

search_for_similar_cases(reply) ==
    CASE reply = "unconfigured" -> "MongoDB URI not configured. Cannot search for similar cases."
      [] reply = "found" -> "Found a similar case"
      [] reply = "none" -> "No similar cases found."
      [] OTHER -> "Failed to search for similar cases"

ask_human_for_confirmation(reply) ==
    IF reply = "yes"
    THEN "Human feedback: 'yes', this is a new document."
    ELSE "Human feedback: 'no', this is not a new document."

\* strings the code inspects character by character are sequences of characters
UpperLetters ==
    <<"A", "B", "C", "D", "E", "F", "G", "H", "I", "J", "K", "L", "M",
      "N", "O", "P", "Q", "R", "S", "T", "U", "V", "W", "X", "Y", "Z">>

LowerLetters ==
    <<"a", "b", "c", "d", "e", "f", "g", "h", "i", "j", "k", "l", "m",
      "n", "o", "p", "q", "r", "s", "t", "u", "v", "w", "x", "y", "z">>

\* str.lower() and str.upper()
lower(str) ==
    [k \in DOMAIN str |->
        IF \E j \in DOMAIN UpperLetters : UpperLetters[j] = str[k]
        THEN LowerLetters[CHOOSE j \in DOMAIN UpperLetters : UpperLetters[j] = str[k]]
        ELSE str[k]]

upper(str) ==
    [k \in DOMAIN str |->
        IF \E j \in DOMAIN LowerLetters : LowerLetters[j] = str[k]
        THEN UpperLetters[CHOOSE j \in DOMAIN LowerLetters : LowerLetters[j] = str[k]]
        ELSE str[k]]

\* the loop's pass comparing the line as typed, without lower()
ask_human_for_confirmation_pass_as_typed(line) ==
    IF line \in {<<"y", "e", "s">>, <<"y">>}
    THEN ask_human_for_confirmation("yes")
    ELSE IF line \in {<<"n", "o">>, <<"n">>}
    THEN ask_human_for_confirmation("no")
    ELSE ""

\* one pass of ask_human_for_confirmation's loop on the line input() returned:
\* the value returned, or "" when the loop prints 'Invalid input' and goes round
ask_human_for_confirmation_pass(line) ==
    LET response == lower(line)
    IN  IF response \in {<<"y", "e", "s">>, <<"y">>}
        THEN ask_human_for_confirmation("yes")
        ELSE IF response \in {<<"n", "o">>, <<"n">>}
        THEN ask_human_for_confirmation("no")
        ELSE ""

---------------------------------------------------------------------------
(* tools.py: the normalization of a file name's components *)

DigitChars == <<"0", "1", "2", "3", "4", "5", "6", "7", "8", "9">>

IsDigit(c) == \E k \in DOMAIN DigitChars : DigitChars[k] = c

DigitValue(c) == (CHOOSE k \in DOMAIN DigitChars : DigitChars[k] = c) - 1

IsLetter(c) ==
    \/ \E k \in DOMAIN UpperLetters : UpperLetters[k] = c
    \/ \E k \in DOMAIN LowerLetters : LowerLetters[k] = c

\* \s
IsSpace(c) == c \in {" ", "\t", "\n"}

\* \w
IsWord(c) == IsLetter(c) \/ IsDigit(c) \/ c = "_"

Least(S) == CHOOSE k \in S : \A j \in S : k <= j

Greatest(S) == CHOOSE k \in S : \A j \in S : j <= k

\* str.strip()
strip(str) ==
    LET inked == {k \in DOMAIN str : ~IsSpace(str[k])}
    IN  IF inked = {} THEN <<>> ELSE SubSeq(str, Least(inked), Greatest(inked))

\* "k in lower"
Contains(str, part) ==
    \E k \in 1..(Len(str) - Len(part) + 1) : SubSeq(str, k, k + Len(part) - 1) = part

\* int() of a string of digits
RECURSIVE Number(_)
Number(str) ==
    IF str = <<>>
    THEN 0
    ELSE 10 * Number(SubSeq(str, 1, Len(str) - 1)) + DigitValue(str[Len(str)])

AllDigits(str) == \A k \in DOMAIN str : IsDigit(str[k])

\* the directives of strptime as their regular expressions read them
IsDay(field) ==
    \/ /\ Len(field) \in {1, 2}
       /\ AllDigits(field)
       /\ Number(field) \in 1..31
    \/ /\ Len(field) = 2
       /\ field[1] = " "
       /\ IsDigit(field[2])
       /\ field[2] # "0"

IsMonth(field) ==
    /\ Len(field) \in {1, 2}
    /\ AllDigits(field)
    /\ Number(field) \in 1..12

IsYear(field) ==
    /\ Len(field) = 4
    /\ AllDigits(field)
    /\ Number(field) >= 1

DayOf(field) == IF field[1] = " " THEN DigitValue(field[2]) ELSE Number(field)

DaysIn(year, month) ==
    IF month = 2
    THEN IF year % 4 = 0 /\ (year % 100 # 0 \/ year % 400 = 0) THEN 29 ELSE 28
    ELSE IF month \in {4, 6, 9, 11} THEN 30 ELSE 31

\* the three fields of a string cut at its separators, <<>> unless there are two
Fields(str, sep) ==
    LET cuts == {k \in DOMAIN str : str[k] = sep}
    IN  IF Cardinality(cuts) # 2
        THEN <<>>
        ELSE <<SubSeq(str, 1, Least(cuts) - 1),
               SubSeq(str, Least(cuts) + 1, Greatest(cuts) - 1),
               SubSeq(str, Greatest(cuts) + 1, Len(str))>>

\* the formats normalize_date tries, in its order
formats ==
    <<[sep |-> ".", year |-> 3], [sep |-> "/", year |-> 3], [sep |-> "-", year |-> 1],
      [sep |-> "/", year |-> 1], [sep |-> "-", year |-> 3], [sep |-> ".", year |-> 1]>>

\* datetime.strptime(d, fmt) returns instead of raising
Parses(d, fmt) ==
    LET fields == Fields(d, fmt.sep)
    IN  /\ fields # <<>>
        /\ IsYear(fields[fmt.year])
        /\ IsMonth(fields[2])
        /\ IsDay(fields[4 - fmt.year])
        /\ DayOf(fields[4 - fmt.year])
               <= DaysIn(Number(fields[fmt.year]), Number(fields[2]))

TwoDigits(n) == <<DigitChars[(n \div 10) + 1], DigitChars[(n % 10) + 1]>>

\* parsed.strftime("%Y%m%d"), for the years from 1000 on that print as parsed
Formatted(d, fmt) ==
    LET fields == Fields(d, fmt.sep)
    IN  fields[fmt.year] \o TwoDigits(Number(fields[2]))
            \o TwoDigits(DayOf(fields[4 - fmt.year]))

IsFileChar(c) == IsDigit(c) \/ IsLetter(c) \/ c \in {"_", "-"}

normalize_date(d) ==
    IF d = <<>>
    THEN <<"u", "n", "k", "n", "o", "w", "n", "_", "d", "a", "t", "e">>
    ELSE LET stripped == strip(d)
             parsing == {k \in DOMAIN formats : Parses(stripped, formats[k])}
             digits == SelectSeq(stripped, IsDigit)
         IN  IF parsing # {}
             THEN Formatted(stripped, formats[Least(parsing)])
             ELSE IF Len(digits) >= 8
             THEN IF SubSeq(digits, 1, 2) \in {<<"2", "0">>, <<"1", "9">>}
                  THEN SubSeq(digits, 1, 8)
                  ELSE SubSeq(digits, 5, 8) \o SubSeq(digits, 3, 4) \o SubSeq(digits, 1, 2)
             ELSE SelectSeq(stripped, IsFileChar)

\* the characters of str outside the given positions
Without(str, positions) ==
    LET kept == {k \in DOMAIN str : k \notin positions}
        RECURSIVE Pick(_)
        Pick(k) ==
            IF k > Len(str)
            THEN <<>>
            ELSE IF k \in kept THEN <<str[k]>> \o Pick(k + 1) ELSE Pick(k + 1)
    IN  Pick(1)

\* re.sub(r"\bGmbH\b\.?", "", n, flags=re.IGNORECASE)
WithoutGmbH(n) ==
    LET found == {k \in 1..(Len(n) - 3) :
                     /\ lower(SubSeq(n, k, k + 3)) = <<"g", "m", "b", "h">>
                     /\ k = 1 \/ ~IsWord(n[k - 1])
                     /\ k + 3 = Len(n) \/ ~IsWord(n[k + 4])}
        matched == UNION {{j \in k..(k + 4) : j <= k + 3 \/ (j <= Len(n) /\ n[j] = ".")} :
                             k \in found}
    IN  Without(n, matched)

\* [\s,\.-]
IsSeparator(c) == IsSpace(c) \/ c \in {",", ".", "-"}

IsPartChar(c) == ~IsSeparator(c)

\* the positions at which the parts of re.split(r"[\s,\.-]+", n) begin
PartStarts(n) ==
    {k \in DOMAIN n : ~IsSeparator(n[k]) /\ (k = 1 \/ IsSeparator(n[k - 1]))}

\* the k-th smallest element of a set of numbers
RECURSIVE Nth(_, _)
Nth(S, k) == IF k = 1 THEN Least(S) ELSE Nth(S \ {Least(S)}, k - 1)

shorten_company(name) ==
    IF name = <<>>
    THEN <<"U", "n", "k", "n", "o", "w", "n", "C", "o", "m", "p", "a", "n", "y">>
    ELSE LET n == strip(WithoutGmbH(strip(name)))
             starts == PartStarts(n)
             count == IF Cardinality(starts) < 3 THEN Cardinality(starts) ELSE 3
         IN  IF Contains(lower(n), <<"d", "e", "u", "t", "s", "c", "h", "e", " ",
                                     "b", "a", "h", "n">>)
             THEN <<"D", "B">>
             ELSE IF Contains(lower(n), <<"d", "e", "u", "t", "s", "c", "h", "e", " ",
                                          "b", "a", "n", "k">>)
             THEN <<"D", "B", "a", "n", "k">>
             ELSE IF Contains(lower(n), <<"s", "t", "a", "d", "t", "w", "e", "r", "k", "e",
                                          " ", "n", "e", "u", " ", "i", "s", "e", "n", "b",
                                          "u", "r", "g">>)
             THEN <<"S", "W", "N", "I">>
             ELSE IF Cardinality(starts) = 1
             THEN SelectSeq(n, IsPartChar)
             ELSE upper([k \in 1..count |-> n[Nth(starts, k)]])

\* re.sub(r'[\W_]+', '_', str)
RECURSIVE sanitized(_)
sanitized(str) ==
    IF str = <<>>
    THEN <<>>
    ELSE IF IsWord(str[1]) /\ str[1] # "_"
    THEN <<str[1]>> \o sanitized(Tail(str))
    ELSE IF Len(str) > 1 /\ ~(IsWord(str[2]) /\ str[2] # "_")
    THEN sanitized(Tail(str))
    ELSE <<"_">> \o sanitized(Tail(str))

---------------------------------------------------------------------------
(* tools.py: save_document *)

SaveOk == "Successfully saved document"

\* A metadata argument is a dict ("dict"), a string that json.loads turns into
\* a dict ("json object") or into another value ("json value"), a string that is
\* not JSON ("text"), or a value that is neither string nor dict ("other").
\* md: the dict save_document reads its three raw fields from, each under its
\* first key; a missing key and an empty value both read as ""
md(metadata) ==
    CASE metadata.type \in {"dict", "json object"} ->
             [date |-> metadata.date, company |-> metadata.company,
              title |-> metadata.title]
      [] metadata.type = "text" ->
             [date |-> <<>>, company |-> <<>>, title |-> metadata.text]
      [] OTHER -> [date |-> <<>>, company |-> <<>>, title |-> <<>>]

\* re.sub(r'[\W_]+', '_', (title_raw or "").strip()) or "untitled"
sanitized_title(title_raw) ==
    IF sanitized(strip(title_raw)) = <<>>
    THEN <<"u", "n", "t", "i", "t", "l", "e", "d">>
    ELSE sanitized(strip(title_raw))

\* norm_date, sanitized_company, sanitized_title
normalized(metadata) ==
    <<normalize_date(md(metadata).date),
      sanitized(shorten_company(md(metadata).company)),
      sanitized_title(md(metadata).title)>>

filename(metadata) ==
    normalized(metadata)[1] \o <<"-">> \o normalized(metadata)[2] \o <<"-">>
        \o normalized(metadata)[3] \o <<".", "p", "d", "f">>

\* a directory in which an existing file is never replaced
write_file_exclusive(dir, name, page_indices) ==
    [n \in DOMAIN dir \cup {name} |-> IF n \in DOMAIN dir THEN dir[n] ELSE page_indices]

\* open(output_path, "wb") and pdf_writer.write(f): the directory afterwards
write_file(dir, name, page_indices) ==
    [n \in DOMAIN dir \cup {name} |-> IF n = name THEN page_indices ELSE dir[n]]

\* save_document without its test of page_indices
save_document_saves_empty(page_indices, metadata, N) ==
    IF \/ metadata.type = "json value"
       \/ \E k \in 1..Len(page_indices) : page_indices[k] >= N
    THEN "Error saving PDF"
    ELSE SaveOk

\* the result string; a file is written exactly when it is SaveOk
save_document(page_indices, metadata, N) ==
    IF page_indices = <<>>
    THEN "Error: No page indices provided to save."
    ELSE IF \/ metadata.type = "json value"
            \/ \E k \in 1..Len(page_indices) : page_indices[k] >= N
         THEN "Error saving PDF"
         ELSE SaveOk

\* config.OUTPUT_DIR after save_document has returned output
saved_files(dir, page_indices, metadata, output) ==
    IF output = SaveOk THEN write_file(dir, filename(metadata), page_indices) ELSE dir

---------------------------------------------------------------------------
(* main.py: ToolExecutor *)

ToolExecutor_invoke(tool_call, reply, N) ==
    IF tool_call.name \in tools_list
    THEN CASE tool_call.name = "read_consecutive_pages" ->
                  read_consecutive_pages(tool_call.args[1], N)
           [] tool_call.name = "search_for_similar_cases" ->
                  search_for_similar_cases(reply)
           [] tool_call.name = "ask_human_for_confirmation" ->
                  ask_human_for_confirmation(reply)
           [] OTHER ->
                  save_document(tool_call.args[1], tool_call.args[2], N)
    ELSE "Tool not found."

---------------------------------------------------------------------------
(* agent.py *)

\* the AgentState dict, with what the run has written and appended so far
World ==
    [messages |-> messages,
     current_page_index |-> current_page_index,
     total_pages |-> total_pages,
     current_document_pages |-> current_document_pages,
     saved |-> saved,
     appended |-> appended,
     invoked |-> <<>>,
     files |-> files,
     tool_messages |-> <<>>]

agent_node(state, result) ==
    [state EXCEPT !.messages = <<result>>]

\* tool_call_step with the document left empty after a save
tool_call_step_empty_document(state, tool_call, reply) ==
    LET output == ToolExecutor_invoke(tool_call, reply, state.total_pages)
        called == [state EXCEPT
                      !.tool_messages = Append(@, ToolMessage(tool_call.id, output)),
                      !.invoked = Append(@, [name |-> tool_call.name, args |-> tool_call.args]),
                      !.saved = IF tool_call.name = "save_document" /\ output = SaveOk
                                THEN Append(@, tool_call.args[1])
                                ELSE @,
                      !.files = IF tool_call.name = "save_document"
                                THEN saved_files(@, tool_call.args[1], tool_call.args[2],
                                                 output)
                                ELSE @]
    IN  IF tool_call.name = "save_document"
        THEN [called EXCEPT
                  !.current_document_pages = <<>>,
                  !.appended = Append(@, state.current_page_index),
                  !.current_page_index = @ + 1]
        ELSE called

\* tool_call_step with the operator's 'yes' treated as a cut
tool_call_step_human_cut(state, tool_call, reply) ==
    LET output == ToolExecutor_invoke(tool_call, reply, state.total_pages)
        called == [state EXCEPT
                      !.tool_messages = Append(@, ToolMessage(tool_call.id, output)),
                      !.invoked = Append(@, [name |-> tool_call.name, args |-> tool_call.args]),
                      !.saved = IF tool_call.name = "save_document" /\ output = SaveOk
                                THEN Append(@, tool_call.args[1])
                                ELSE @,
                      !.files = IF tool_call.name = "save_document"
                                THEN saved_files(@, tool_call.args[1], tool_call.args[2],
                                                 output)
                                ELSE @]
    IN  IF \/ tool_call.name = "save_document"
           \/ tool_call.name = "ask_human_for_confirmation" /\ reply = "yes"
        THEN [called EXCEPT
                  !.current_document_pages = <<state.current_page_index>>,
                  !.appended = Append(@, state.current_page_index),
                  !.current_page_index = @ + 1]
        ELSE called

\* tool_call_step with a similar case found treated as a cut
tool_call_step_search_cut(state, tool_call, reply) ==
    LET output == ToolExecutor_invoke(tool_call, reply, state.total_pages)
        called == [state EXCEPT
                      !.tool_messages = Append(@, ToolMessage(tool_call.id, output)),
                      !.invoked = Append(@, [name |-> tool_call.name, args |-> tool_call.args]),
                      !.saved = IF tool_call.name = "save_document" /\ output = SaveOk
                                THEN Append(@, tool_call.args[1])
                                ELSE @,
                      !.files = IF tool_call.name = "save_document"
                                THEN saved_files(@, tool_call.args[1], tool_call.args[2],
                                                 output)
                                ELSE @]
    IN  IF \/ tool_call.name = "save_document"
           \/ tool_call.name = "search_for_similar_cases" /\ reply = "found"
        THEN [called EXCEPT
                  !.current_document_pages = <<state.current_page_index>>,
                  !.appended = Append(@, state.current_page_index),
                  !.current_page_index = @ + 1]
        ELSE called

\* tool_call_step starting a new document only after a save that wrote its file
tool_call_step_on_success(state, tool_call, reply) ==
    LET output == ToolExecutor_invoke(tool_call, reply, state.total_pages)
        called == [state EXCEPT
                      !.tool_messages = Append(@, ToolMessage(tool_call.id, output)),
                      !.invoked = Append(@, [name |-> tool_call.name, args |-> tool_call.args]),
                      !.saved = IF tool_call.name = "save_document" /\ output = SaveOk
                                THEN Append(@, tool_call.args[1])
                                ELSE @,
                      !.files = IF tool_call.name = "save_document"
                                THEN saved_files(@, tool_call.args[1], tool_call.args[2],
                                                 output)
                                ELSE @]
    IN  IF tool_call.name = "save_document" /\ output = SaveOk
        THEN [called EXCEPT
                  !.current_document_pages = <<state.current_page_index>>,
                  !.appended = Append(@, state.current_page_index),
                  !.current_page_index = @ + 1]
        ELSE called

\* one pass of tool_node's for loop
tool_call_step(state, tool_call, reply) ==
    LET output == ToolExecutor_invoke(tool_call, reply, state.total_pages)
        called == [state EXCEPT
                      !.tool_messages = Append(@, ToolMessage(tool_call.id, output)),
                      !.invoked = Append(@, [name |-> tool_call.name, args |-> tool_call.args]),
                      !.saved = IF tool_call.name = "save_document" /\ output = SaveOk
                                THEN Append(@, tool_call.args[1])
                                ELSE @,
                      !.files = IF tool_call.name = "save_document"
                                THEN saved_files(@, tool_call.args[1], tool_call.args[2],
                                                 output)
                                ELSE @]
    IN  IF tool_call.name = "save_document"
        THEN [called EXCEPT
                  !.current_document_pages = <<state.current_page_index>>,
                  !.appended = Append(@, state.current_page_index),
                  !.current_page_index = @ + 1]
        ELSE called

RECURSIVE tool_call_loop(_, _, _, _)
tool_call_loop(state, tool_calls, replies, i) ==
    IF i > Len(tool_calls)
    THEN state
    ELSE tool_call_loop(tool_call_step(state, tool_calls[i], replies[i]),
                        tool_calls, replies, i + 1)

\* tool_node advancing past a page without collecting it
tool_node_drops_page(state, replies) ==
    LET tool_calls == state.messages[Len(state.messages)].tool_calls
    IN  IF tool_calls = <<>>
        THEN [state EXCEPT !.current_page_index = @ + 1]
        ELSE LET done == tool_call_loop(state, tool_calls, replies, 1)
             IN  [done EXCEPT !.messages = @ \o done.tool_messages]

\* tool_node advancing the cursor before it collects the page
tool_node_increments_first(state, replies) ==
    LET tool_calls == state.messages[Len(state.messages)].tool_calls
    IN  IF tool_calls = <<>>
        THEN [state EXCEPT
                  !.current_document_pages = Append(@, state.current_page_index + 1),
                  !.appended = Append(@, state.current_page_index + 1),
                  !.current_page_index = @ + 1]
        ELSE LET done == tool_call_loop(state, tool_calls, replies, 1)
             IN  [done EXCEPT !.messages = @ \o done.tool_messages]

tool_node(state, replies) ==
    LET tool_calls == state.messages[Len(state.messages)].tool_calls
    IN  IF tool_calls = <<>>
        THEN [state EXCEPT
                  !.current_document_pages = Append(@, state.current_page_index),
                  !.appended = Append(@, state.current_page_index),
                  !.current_page_index = @ + 1]
        ELSE LET done == tool_call_loop(state, tool_calls, replies, 1)
             IN  [done EXCEPT !.messages = @ \o done.tool_messages]

should_continue(state) ==
    IF state.current_page_index >= state.total_pages
    THEN END
    ELSE "agent"

---------------------------------------------------------------------------
(* main.py: the workflow graph and the run *)

initial_state(N) ==
    [messages |-> <<HumanMessage("Please use the read_consecutive_pages tool")>>,
     current_page_index |-> 0,
     total_pages |-> N,
     current_document_pages |-> <<>>]

Init ==
    \E N \in 0..MaxPages :
        /\ pc = "agent"
        /\ messages = initial_state(N).messages
        /\ current_page_index = initial_state(N).current_page_index
        /\ total_pages = initial_state(N).total_pages
        /\ current_document_pages = initial_state(N).current_document_pages
        /\ saved = <<>>
        /\ appended = <<>>
        /\ invoked = <<>>
        /\ files = NoFiles
        /\ frame = NoFrame

\* the state a node returns becomes the state of the run
Returned(state) ==
    /\ messages' = state.messages
    /\ current_page_index' = state.current_page_index
    /\ total_pages' = state.total_pages
    /\ current_document_pages' = state.current_document_pages
    /\ saved' = state.saved
    /\ appended' = state.appended
    /\ invoked' = state.invoked
    /\ files' = state.files

\* node "agent" followed by its conditional edge, as main.py adds it
Agent ==
    /\ pc = "agent"
    /\ \E tool_calls \in Turns :
          LET state == agent_node(World, AIMessage(tool_calls))
          IN  /\ Returned(state)
              /\ pc' = should_continue(state)
              /\ UNCHANGED frame

\* agent.invoke raising inside agent_node: nothing in agent_node or the graph
\* catches it, app.stream re-raises and main.py's handler prints and returns
AgentFails ==
    /\ pc = "agent"
    /\ pc' = "aborted"
    /\ UNCHANGED <<messages, current_page_index, total_pages,
                   current_document_pages, saved, appended, invoked, files, frame>>

Next == Agent \/ AgentFails

Spec == Init /\ [][Next]_vars

FairSpec == Spec /\ WF_vars(Next)

\* node "agent" with its pending turn handed to node "tools" unless the run ends
AgentTurn ==
    /\ pc = "agent"
    /\ \E tool_calls \in Turns :
          LET state == agent_node(World, AIMessage(tool_calls))
          IN  /\ Returned(state)
              /\ pc' = IF should_continue(state) = END THEN END ELSE "tools"
              /\ UNCHANGED frame

\* node "tools" followed by the edge tools -> agent
Tools ==
    /\ pc = "tools"
    /\ \E replies \in RepliesFor(messages[Len(messages)].tool_calls) :
          /\ Returned(tool_node(World, replies))
          /\ pc' = "agent"
          /\ UNCHANGED frame

LoopNext == AgentTurn \/ Tools \/ AgentFails

LoopSpec == Init /\ [][LoopNext]_vars

---------------------------------------------------------------------------
(* ollama_agent.py: OllamaPDFSplitterAgent.run, studied alone *)

\* the five tool names declared to the reasoning backend
declared_tools ==
    {"read_consecutive_pages", "extract_metadata", "search_for_similar_cases",
     "ask_human_for_confirmation", "save_document"}

\* most calls of client.chat the backend is prepared to answer in one run()
MaxAttempts == 3

\* a tool call that carries no function name
NoName == ""

\* page_indices the backend passes to save_document in a run()
OllamaPageLists == {<<>>, <<0>>, <<0, 1>>}

\* keyword arguments a tool call may carry; page_numbers is accepted by no tool
OllamaCallShapes ==
    {[name |-> "save_document", arguments |-> [page_indices |-> p, metadata |-> m]] :
        p \in OllamaPageLists, m \in Metadata}
    \cup {[name |-> "read_consecutive_pages", arguments |-> [current_page_index |-> i]] :
             i \in PageArgs}
    \cup {[name |-> n, arguments |-> [current_page_text |-> "text", next_page_text |-> "text"]] :
             n \in {"search_for_similar_cases", "extract_metadata"}}
    \cup {[name |-> n, arguments |-> [question |-> "question"]] :
             n \in {"ask_human_for_confirmation", "other_tool", "ollama_tools", NoName}}
    \cup {[name |-> "read_consecutive_pages", arguments |-> [page_numbers |-> <<0>>]]}

\* the tool_calls of a response message: call i carries id i
OllamaTurns ==
    {[i \in 1..Len(t) |-> [id |-> i, function |-> t[i]]] :
        t \in SeqUpTo(OllamaCallShapes, MaxCalls)}

\* a response whose "message" is missing or empty
NoMessage == [role |-> "", tool_calls |-> <<>>]

\* what a successful client.chat returns
Responses ==
    {[message |-> NoMessage]}
    \cup {[message |-> [role |-> "assistant", tool_calls |-> t]] : t \in OllamaTurns}

OllamaToolMessage(tool_call_id, name, content) ==
    [role |-> "tool", tool_call_id |-> tool_call_id, name |-> name, content |-> content]

\* the names bound in the module's globals(): its imports, the tool list, the classes
ollama_agent_globals ==
    declared_tools \cup {"ollama", "List", "Dict", "Any", "config", "ollama_tools",
                         "BasePDFSplitterAgent", "OllamaPDFSplitterAgent"}

\* the parameters of the tool functions, and those without a default
Parameters(name) ==
    CASE name = "read_consecutive_pages" -> {"current_page_index"}
      [] name = "save_document" -> {"page_indices", "metadata"}
      [] name = "ask_human_for_confirmation" -> {"question"}
      [] OTHER -> {"current_page_text", "next_page_text"}

Required(name) ==
    IF name = "extract_metadata" THEN {"current_page_text"} ELSE Parameters(name)

\* the chat call of extract_metadata answered with a JSON object
extract_metadata(reply) == "{date, company, title}"

OllamaRepliesFor(calls) ==
    {r \in [1..Len(calls) -> AllReplies] :
        \A i \in 1..Len(calls) : r[i] \in Replies(calls[i].function.name)}

\* tool_function(**args): only a tool function called with its own keywords returns
ToolFunctionReturns(name, args) ==
    /\ name \in declared_tools
    /\ Required(name) \subseteq DOMAIN args
    /\ DOMAIN args \subseteq Parameters(name)

tool_function(name, args, reply, N) ==
    CASE name = "read_consecutive_pages" ->
              read_consecutive_pages(args.current_page_index, N)
      [] name = "search_for_similar_cases" -> search_for_similar_cases(reply)
      [] name = "ask_human_for_confirmation" -> ask_human_for_confirmation(reply)
      [] name = "extract_metadata" -> extract_metadata(reply)
      [] OTHER -> save_document(args.page_indices, args.metadata, N)

\* the loop's pass answering a call without a name as an unknown tool
ollama_call_step_answers_nameless(state, call, reply) ==
    [state EXCEPT
        !.messages = Append(@, OllamaToolMessage(call.id, call.function.name,
                                                 "Unknown tool"))]

\* one pass of run's for loop over the tool calls
ollama_call_step(state, call, reply) ==
    LET name == call.function.name
        args == call.function.arguments
    IN  IF name = NoName
        THEN state
        ELSE IF name \in ollama_agent_globals
        THEN IF ToolFunctionReturns(name, args)
             THEN LET result == tool_function(name, args, reply, state.total_pages)
                  IN  [state EXCEPT
                          !.messages = Append(@, OllamaToolMessage(call.id, name, result)),
                          !.invoked = Append(@, [name |-> name, args |-> args]),
                          !.saved = IF name = "save_document" /\ result = SaveOk
                                    THEN Append(@, args.page_indices)
                                    ELSE @,
                          !.files = IF name = "save_document"
                                    THEN saved_files(@, args.page_indices, args.metadata,
                                                     result)
                                    ELSE @]
             ELSE [state EXCEPT
                      !.messages = Append(@, OllamaToolMessage(call.id, name,
                                                               "Error calling tool")),
                      !.invoked = Append(@, [name |-> name, args |-> args])]
        ELSE [state EXCEPT
                 !.messages = Append(@, OllamaToolMessage(call.id, name, "Unknown tool"))]

RECURSIVE ollama_call_loop(_, _, _, _)
ollama_call_loop(state, tool_calls, replies, i) ==
    IF i > Len(tool_calls)
    THEN state
    ELSE ollama_call_loop(ollama_call_step(state, tool_calls[i], replies[i]),
                          tool_calls, replies, i + 1)

\* an update_state that moves the cursor on
update_state_advances(state, tool_calls) ==
    [state EXCEPT !.current_page_index = @ + 1]

\* base_agent.py: the hook run() passes its state through
update_state(state, tool_calls) == state

\* run() from the response of a successful client.chat to its return
run_response(state, response, replies) ==
    LET tool_calls == response.message.tool_calls
        answered == IF response.message = NoMessage
                    THEN state
                    ELSE [state EXCEPT !.messages = Append(@, response.message)]
    IN  update_state(ollama_call_loop(answered, tool_calls, replies, 1), tool_calls)

\* run() when client.chat has raised twice
run_failed(state) ==
    [state EXCEPT !.messages = Append(@, OllamaToolMessage("ollama_error", "ollama_error",
                                                           "Ollama chat failed"))]

\* run with a second retry
run_retries_again(state, backend, response, replies) ==
    IF backend[1] = "ok"
    THEN [state |-> run_response(state, response, replies), chat |-> <<backend[1]>>]
    ELSE IF backend[2] = "ok"
    THEN [state |-> run_response(state, response, replies),
          chat |-> <<backend[1], backend[2]>>]
    ELSE IF backend[3] = "ok"
    THEN [state |-> run_response(state, response, replies),
          chat |-> <<backend[1], backend[2], backend[3]>>]
    ELSE [state |-> run_failed(state), chat |-> <<backend[1], backend[2], backend[3]>>]

\* backend[k] is the outcome of the k-th client.chat call; chat lists the calls made
run(state, backend, response, replies) ==
    IF backend[1] = "ok"
    THEN [state |-> run_response(state, response, replies), chat |-> <<backend[1]>>]
    ELSE IF backend[2] = "ok"
    THEN [state |-> run_response(state, response, replies),
          chat |-> <<backend[1], backend[2]>>]
    ELSE [state |-> run_failed(state), chat |-> <<backend[1], backend[2]>>]

RunInit ==
    \E N \in 0..MaxPages :
        \E i \in 0..N :
            /\ pc = "run"
            /\ messages = <<[role |-> "user", content |-> "Begin processing."]>>
            /\ current_page_index = i
            /\ total_pages = N
            /\ current_document_pages \in {<<>>, <<i>>}
            /\ saved = <<>>
            /\ appended = <<>>
            /\ invoked = <<>>
            /\ files = NoFiles
            /\ frame = NoFrame

\* one invocation of run(messages, state)
Run ==
    /\ pc = "run"
    /\ \E backend \in [1..MaxAttempts -> {"ok", "fail"}], response \in Responses :
          \E replies \in OllamaRepliesFor(response.message.tool_calls) :
              LET returned == run(World, backend, response, replies)
              IN  /\ Returned(returned.state)
                  /\ frame' = [chat |-> returned.chat, backend |-> backend,
                               response |-> response, replies |-> replies]
                  /\ pc' = "returned"

RunNext == Run

RunSpec == RunInit /\ [][RunNext]_vars

---------------------------------------------------------------------------
(* tools.py: the tool functions, each studied alone *)

\* a state of the run in which a tool function is called
CallInit ==
    \E N \in 0..MaxPages :
        \E i \in 0..N :
            /\ messages = <<[role |-> "user", content |-> "Begin processing."]>>
            /\ current_page_index = i
            /\ total_pages = N
            /\ current_document_pages \in {<<>>, <<i>>}
            /\ saved = <<>>
            /\ appended = <<>>
            /\ invoked = <<>>
            /\ files = NoFiles

\* indices a caller may pass to read_consecutive_pages: any integer
ReadArgs == (0 - MaxPages)..(MaxPages + 1)

ReadInit ==
    /\ CallInit
    /\ pc = "read_consecutive_pages"
    /\ \E i \in ReadArgs : frame = [current_page_index |-> i]

\* read_consecutive_pages(current_page_index) on the source of total_pages pages
Read ==
    /\ pc = "read_consecutive_pages"
    /\ frame' = [current_page_index |-> frame.current_page_index,
                 result |-> read_consecutive_pages(frame.current_page_index, total_pages),
                 content |-> content_pages(frame.current_page_index, total_pages)]
    /\ pc' = "returned"
    /\ UNCHANGED <<messages, current_page_index, total_pages,
                   current_document_pages, saved, appended, invoked, files>>

ReadNext == Read

ReadSpec == ReadInit /\ [][ReadNext]_vars

\* most lines the operator types at one prompt
MaxLines == 3

\* lines input() may return
Lines ==
    {<<"y", "e", "s">>, <<"Y", "E", "S">>, <<"Y", "e", "s">>, <<"y">>, <<"Y">>,
     <<"n", "o">>, <<"N", "O">>, <<"n", "O">>, <<"n">>, <<"N">>,
     <<>>, <<"j", "a">>, <<"y", "e", "s", " ">>, <<"y", "e">>, <<"n", "o", "n">>}

AskInit ==
    /\ CallInit
    /\ total_pages = MaxPages
    /\ current_page_index = 0
    /\ current_document_pages = <<>>
    /\ pc = "input"
    /\ frame = [lines |-> <<>>, result |-> ""]

\* ask_human_for_confirmation blocked in input(): the operator types one line
Ask ==
    /\ pc = "input"
    /\ Len(frame.lines) < MaxLines
    /\ \E line \in Lines :
          LET result == ask_human_for_confirmation_pass(line)
          IN  /\ frame' = [lines |-> Append(frame.lines, line), result |-> result]
              /\ pc' = IF result = "" THEN "input" ELSE "returned"
    /\ UNCHANGED <<messages, current_page_index, total_pages,
                   current_document_pages, saved, appended, invoked, files>>

AskNext == Ask

AskSpec == AskInit /\ [][AskNext]_vars

\* most save_document calls made one after the other
MaxSaves == 2

\* page_indices passed to save_document; MaxPages is on no source
SavePageLists == {<<>>, <<0>>, <<1, 0>>, <<MaxPages>>}

\* metadata passed to save_document
SaveMetadata ==
    {[type |-> "dict", date |-> <<"1", ".", "2", ".", "2", "0", "2", "4">>,
      company |-> <<"A", "C", "M", "E", " ", "G", "m", "b", "H">>,
      title |-> <<"A", " ", "B">>],
     [type |-> "json object",
      date |-> <<"2", "0", "2", "4", "-", "0", "2", "-", "0", "1">>,
      company |-> <<"A", "C", "M", "E">>, title |-> <<"A", "_", "B">>],
     [type |-> "dict", date |-> <<>>, company |-> <<>>, title |-> <<>>],
     [type |-> "dict", date |-> <<>>, company |-> <<>>, title |-> <<"A", "!", "B">>],
     [type |-> "dict", date |-> <<" ">>, company |-> <<"G", "m", "b", "H">>,
      title |-> <<"!">>],
     [type |-> "text", text |-> <<"A", " ", "B">>],
     [type |-> "json value"],
     [type |-> "other"]}

SaveInit ==
    /\ CallInit
    /\ current_page_index = 0
    /\ current_document_pages = <<>>
    /\ pc = "save_document"
    /\ frame = [calls |-> <<>>]

\* one call save_document(page_indices, metadata)
Save ==
    /\ pc = "save_document"
    /\ Len(frame.calls) < MaxSaves
    /\ \E page_indices \in SavePageLists, metadata \in SaveMetadata :
          LET output == save_document(page_indices, metadata, total_pages)
          IN  /\ files' = saved_files(files, page_indices, metadata, output)
              /\ saved' = IF output = SaveOk THEN Append(saved, page_indices) ELSE saved
              /\ frame' = [calls |-> Append(frame.calls,
                                            [page_indices |-> page_indices,
                                             metadata |-> metadata,
                                             result |-> output])]
    /\ UNCHANGED <<pc, messages, current_page_index, total_pages,
                   current_document_pages, appended, invoked>>

SaveNext == Save

SaveSpec == SaveInit /\ [][SaveNext]_vars

\* longest string drawn from NameChars
MaxLen == 3

\* characters of the raw strings: a digit, letters, blank, separators, punctuation
NameChars == {"1", "a", "B", " ", "-", "!"}

\* raw date, company and title strings as metadata carries them
Samples ==
    {<<"1", "8", ".", "0", "8", ".", "2", "0", "2", "5">>,
     <<"2", "0", "2", "5", "-", "0", "8", "-", "1", "8">>,
     <<"1", "8", ".", "0", "8", ".", "1", "8", "5", "0">>,
     <<"3", "1", ".", "0", "2", ".", "2", "0", "2", "5">>,
     <<"1", "8", "0", "8", "2", "0", "2", "5">>,
     <<"A", "u", "g", " ", "1", "8", ",", " ", "2", "0", "2", "5">>,
     <<"A", "C", "M", "E", " ", "G", "m", "b", "H">>,
     <<"G", "m", "b", "H">>,
     <<"g", "m", "b", "h", ".">>,
     <<"D", "e", "u", "t", "s", "c", "h", "e", " ", "B", "a", "h", "n", " ", "A", "G">>,
     <<"F", "o", "o", " ", "B", "a", "r", ",", " ", "B", "a", "z", " ", "Q", "u", "x">>,
     <<"I", "n", "v", "o", "i", "c", "e", " ", "#", "2", "0", "2", "5", "/", "0", "8",
       "!", "!">>}

Strings == SeqUpTo(NameChars, MaxLen) \cup Samples

NameInit ==
    /\ CallInit
    /\ total_pages = MaxPages
    /\ current_page_index = 0
    /\ current_document_pages = <<>>
    /\ pc \in {"normalize_date", "shorten_company", "sanitized_title"}
    /\ \E str \in Strings : frame = [input |-> str]

\* normalize_date(d)
NormalizeDate ==
    /\ pc = "normalize_date"
    /\ frame' = [function |-> pc, input |-> frame.input,
                 output |-> normalize_date(frame.input)]
    /\ pc' = "returned"
    /\ UNCHANGED <<messages, current_page_index, total_pages,
                   current_document_pages, saved, appended, invoked, files>>

\* shorten_company(name)
ShortenCompany ==
    /\ pc = "shorten_company"
    /\ frame' = [function |-> pc, input |-> frame.input,
                 output |-> shorten_company(frame.input)]
    /\ pc' = "returned"
    /\ UNCHANGED <<messages, current_page_index, total_pages,
                   current_document_pages, saved, appended, invoked, files>>

\* save_document's sanitized_title from title_raw
SanitizeTitle ==
    /\ pc = "sanitized_title"
    /\ frame' = [function |-> pc, input |-> frame.input,
                 output |-> sanitized_title(frame.input)]
    /\ pc' = "returned"
    /\ UNCHANGED <<messages, current_page_index, total_pages,
                   current_document_pages, saved, appended, invoked, files>>

NameNext == NormalizeDate \/ ShortenCompany \/ SanitizeTitle

NameSpec == NameInit /\ [][NameNext]_vars

---------------------------------------------------------------------------
(* Vocabulary of the properties *)

LastMessage == messages[Len(messages)]

\* the turn tool_node is about to process
PendingCalls == LastMessage.tool_calls

IsSave(call) == call.name = "save_document"

\* save_document calls among the first n calls of a turn
SavesBefore(calls, n) == Cardinality({j \in 1..n : IsSave(calls[j])})

\* the cursor that call i of the pending turn meets
CursorAt(i) == current_page_index + SavesBefore(PendingCalls, i - 1)

\* the in-progress document that call i of the pending turn meets
InProgressAt(i) ==
    IF SavesBefore(PendingCalls, i - 1) = 0
    THEN current_document_pages
    ELSE <<CursorAt(i) - 1>>

\* how often page p occurs in the saved documents
TimesSaved(p) ==
    Cardinality(UNION {{<<i, k>> : k \in {j \in DOMAIN saved[i] : saved[i][j] = p}} :
                          i \in DOMAIN saved})

Ascending(s) == \A k \in 1..(Len(s) - 1) : s[k] < s[k + 1]

GapFree(s) == \A k \in 1..(Len(s) - 1) : s[k + 1] = s[k] + 1

---------------------------------------------------------------------------
(* Properties *)

\* C1: once the loop has ended on a source of N >= 1 pages, the page lists of
\* the successful save_document calls partition 0..N-1 (each page in exactly
\* one saved document) and each saved list is ascending.
C1_SavedPartition ==
    (pc = END /\ total_pages >= 1) =>
        /\ \A p \in 0..(total_pages - 1) : TimesSaved(p) = 1
        /\ \A i \in 1..Len(saved) : Ascending(saved[i])

\* a turn that is meant to advance the cursor (no tool call, or a save), or the end
AdvancingTurn ==
    \/ pc = END
    \/ /\ LastMessage.type = "ai"
       /\ \/ LastMessage.tool_calls = <<>>
          \/ \E i \in 1..Len(LastMessage.tool_calls) : IsSave(LastMessage.tool_calls[i])

\* C2: if the agent issues only finitely many non-advancing tool-call turns
\* (and the backend answers every turn), the run started by main.py reaches END
\* with the cursor at total_pages after exactly total_pages advances.
C2_RunReachesEnd ==
    ((<>[]AdvancingTurn) /\ [](pc # "aborted")) =>
        <>(/\ pc = END
           /\ current_page_index = total_pages
           /\ Len(appended) = total_pages)

\* C3: the loop never ends with pages left in the in-progress document that no
\* save_document call has written.
C3_NoUnsavedTrailingPages ==
    pc = END =>
        \A k \in 1..Len(current_document_pages) :
            TimesSaved(current_document_pages[k]) >= 1

\* C4: whenever agent_node is about to be invoked, every tool call of an
\* earlier agent turn has been executed and its result follows the turn in the
\* history, in call order.
C4_ToolResultsBeforeAgent ==
    pc = "agent" =>
        \A j \in 1..Len(messages) :
            messages[j].type = "ai" =>
                \A i \in 1..Len(messages[j].tool_calls) :
                    /\ j + i <= Len(messages)
                    /\ messages[j + i].type = "tool"
                    /\ messages[j + i].tool_call_id = messages[j].tool_calls[i].id

\* C5: every save_document call that tool_node executes is passed exactly the
\* in-progress document accumulated at that moment.
C5_SavePassesInProgressDocument ==
    [][pc = "tools" =>
          \A i \in 1..Len(PendingCalls) :
              IsSave(PendingCalls[i]) => PendingCalls[i].args[1] = InProgressAt(i)]_vars

\* C6: on a turn without tool calls tool_node appends the cursor to the
\* in-progress document, advances the cursor by one, executes no tool and adds
\* no message.
C6_NoToolCallAdvances ==
    [][(pc = "tools" /\ PendingCalls = <<>>) =>
          /\ current_document_pages' = Append(current_document_pages, current_page_index)
          /\ current_page_index' = current_page_index + 1
          /\ invoked' = <<>>
          /\ saved' = saved
          /\ messages' = messages]_vars

C6_Witness ==
    /\ pc = "agent"
    /\ LastMessage = AIMessage(<<>>)
    /\ current_page_index = 2
    /\ current_document_pages = <<0, 1>>

\* C7: tool_node invokes save_document with the arguments of every
\* save_document call of the turn; a save call met at cursor c starts the
\* document [c] and leaves the cursor at c+1, so after the turn the in-progress
\* document is the single page its last save call met and the cursor is one
\* past it.
C7_SaveStartsNewDocument ==
    [][(pc = "tools" /\ SavesBefore(PendingCalls, Len(PendingCalls)) > 0) =>
          LET calls == PendingCalls
              n == Len(calls)
              last == CHOOSE i \in 1..n :
                          IsSave(calls[i]) /\ \A j \in (i + 1)..n : ~IsSave(calls[j])
          IN  /\ Len(invoked') = n
              /\ \A i \in 1..n :
                    IsSave(calls[i]) =>
                        /\ invoked'[i] = [name |-> "save_document", args |-> calls[i].args]
                        /\ messages'[Len(messages) + i].content =
                               save_document(calls[i].args[1], calls[i].args[2], total_pages)
                        /\ appended'[Len(appended) + SavesBefore(calls, i)] = CursorAt(i)
              /\ Len(appended') = Len(appended) + SavesBefore(calls, n)
              /\ current_document_pages' = <<CursorAt(last)>>
              /\ current_page_index' = CursorAt(last) + 1]_vars

C7_Witness ==
    /\ pc = "agent"
    /\ Len(messages) = 2
    /\ messages[1].type = "ai"
    /\ Len(messages[1].tool_calls) = 1
    /\ messages[1].tool_calls[1].name = "save_document"
    /\ messages[1].tool_calls[1].args[1] = <<0>>
    /\ messages[2].content = SaveOk
    /\ saved = << <<0>> >>
    /\ current_document_pages = <<1>>
    /\ current_page_index = 2

NonSaveTools == {"read_consecutive_pages", "search_for_similar_cases",
                 "ask_human_for_confirmation", "extract_metadata"}

\* C8: on a turn of only read_consecutive_pages, search_for_similar_cases,
\* ask_human_for_confirmation or extract_metadata calls tool_node leaves the
\* cursor and the in-progress document unchanged and appends one tool-result
\* message per call to the history, in call order.
C8_OtherToolsKeepCursor ==
    [][(/\ pc = "tools"
        /\ PendingCalls # <<>>
        /\ \A i \in 1..Len(PendingCalls) : PendingCalls[i].name \in NonSaveTools) =>
          /\ current_page_index' = current_page_index
          /\ current_document_pages' = current_document_pages
          /\ saved' = saved
          /\ Len(messages') = Len(messages) + Len(PendingCalls)
          /\ SubSeq(messages', 1, Len(messages)) = messages
          /\ \A i \in 1..Len(PendingCalls) :
                /\ messages'[Len(messages) + i].type = "tool"
                /\ messages'[Len(messages) + i].tool_call_id = PendingCalls[i].id]_vars

C8_Witness ==
    /\ pc = "agent"
    /\ Len(messages) = 3
    /\ messages[1].type = "ai"
    /\ Len(messages[1].tool_calls) = 2
    /\ messages[1].tool_calls[1].name = "read_consecutive_pages"
    /\ messages[1].tool_calls[2].name = "ask_human_for_confirmation"
    /\ messages[2] = ToolMessage(1, "page and next page")
    /\ messages[3] = ToolMessage(2, "Human feedback: 'yes', this is a new document.")
    /\ current_page_index = 1
    /\ current_document_pages = <<0>>

\* C9: the cursor never decreases, no step advances it by more than one, and
\* it never exceeds total_pages.
C9_CursorStepsByOne ==
    [][/\ current_page_index' >= current_page_index
       /\ current_page_index' <= current_page_index + 1
       /\ current_page_index' <= total_pages']_vars

\* C10: the in-progress document is a gap-free ascending run that, when
\* non-empty, ends at cursor-1, and the pages appended to in-progress documents
\* so far are exactly 0..cursor-1, each once.
C10_InProgressRun ==
    /\ GapFree(current_document_pages)
    /\ current_document_pages # <<>> =>
           current_document_pages[Len(current_document_pages)] = current_page_index - 1
    /\ appended = [k \in 1..current_page_index |-> k - 1]

C10_Witness ==
    /\ Len(current_document_pages) = 2
    /\ current_page_index = 2
    /\ saved # <<>>

\* s is an initial segment of t
IsPrefix(s, t) == Len(s) <= Len(t) /\ SubSeq(t, 1, Len(s)) = s

\* C11: the message history is append-only: every step of agent_node and of
\* tool_node leaves the history it found as an initial segment of the new one
C11_HistoryAppendOnly == [][IsPrefix(messages, messages')]_vars

\* C14: the dispatcher answers a tool call with its unknown-tool result exactly
\* when the call's name is not one of the five declared tool names
C14_VocabularyClosed ==
    [][pc = "tools" =>
         \A i \in DOMAIN PendingCalls :
             (messages'[Len(messages) + i].content = "Tool not found.")
                 <=> (PendingCalls[i].name \notin declared_tools)]_vars

\* C15: a failure of the reasoning backend inside agent_node never ends the run
C15_BackendFailureKeepsRunning == pc # "aborted"

\* C16: the agent is never invoked while the cursor is at or past total_pages,
\* the first turn of a run included
C16_AgentNotInvokedAtEnd ==
    [][pc = "agent" => current_page_index < total_pages]_vars

\* a backend on which every call succeeds
BackendUp == [k \in 1..MaxAttempts |-> "ok"]

\* C12: run() calls the backend once when the first call succeeds and twice when
\* it fails, never a third time; after a successful retry it returns what it
\* returns after a successful first call with the same response
C12_ExactlyOneRetry ==
    [][pc = "run" =>
         LET chat == frame'.chat
             direct == run(World, BackendUp, frame'.response, frame'.replies).state
         IN  /\ Len(chat) \in {1, 2}
             /\ \A k \in 1..Len(chat) : chat[k] = frame'.backend[k]
             /\ Len(chat) = 1 <=> frame'.backend[1] = "ok"
             /\ Len(chat) = 2 <=> frame'.backend[1] = "fail"
             /\ chat = <<"fail", "ok">> =>
                    /\ messages' = direct.messages
                    /\ invoked' = direct.invoked
                    /\ saved' = direct.saved
                    /\ current_page_index' = direct.current_page_index
                    /\ current_document_pages' = direct.current_document_pages]_vars

C12_Witness ==
    /\ pc = "returned"
    /\ frame.chat = <<"fail", "ok">>
    /\ frame.backend[3] = "ok"
    /\ Len(invoked) = 2
    /\ saved # <<>>

\* C13: when the call and its retry both fail, run() appends exactly one tool
\* message with the error text, dispatches no tool, makes no save, and the
\* cursor is advanced by one
C13_FailedRetryAdvancesCursor ==
    [][pc = "run" /\ frame'.chat = <<"fail", "fail">> =>
         /\ messages' = Append(messages, OllamaToolMessage("ollama_error", "ollama_error",
                                                            "Ollama chat failed"))
         /\ invoked' = <<>>
         /\ saved' = saved
         /\ current_document_pages' = current_document_pages
         /\ current_page_index' = current_page_index + 1]_vars

\* C19: on a source of N pages read_consecutive_pages(i) returns the
\* out-of-bounds error when i < 0 or i >= N, page i and the end-of-document
\* sentinel when i = N-1, pages i and i+1 otherwise, and changes no state
C19_ReadCases ==
    [][pc = "read_consecutive_pages" =>
         LET i == frame.current_page_index
             N == total_pages
         IN  /\ (i < 0 \/ i >= N) =>
                    /\ frame'.result = "Error: Current page index is out of bounds."
                    /\ frame'.content = <<>>
             /\ (0 <= i /\ i = N - 1) =>
                    /\ frame'.result = "page and End of Document"
                    /\ frame'.content = <<i>>
             /\ (0 <= i /\ i < N - 1) =>
                    /\ frame'.result = "page and next page"
                    /\ frame'.content = <<i, i + 1>>
             /\ UNCHANGED <<messages, current_page_index, total_pages,
                            current_document_pages, saved, files>>]_vars

C19_Witness ==
    /\ pc = "returned"
    /\ total_pages = 2
    /\ frame.current_page_index = 1
    /\ frame.content = <<1>>

Yes == {<<"y", "e", "s">>, <<"y">>}

No == {<<"n", "o">>, <<"n">>}

\* C20: ask_human_for_confirmation returns exactly on a line that is yes, y, no
\* or n up to letter case, with the 'new document' result for yes/y and the
\* 'not a new document' result for no/n; on any other line it asks again
C20_ReturnsOnValidAnswer ==
    [][pc = "input" =>
         LET line == frame'.lines[Len(frame'.lines)]
         IN  /\ pc' = "returned" <=> lower(line) \in Yes \cup No
             /\ pc' # "returned" => pc' = "input" /\ frame'.result = ""
             /\ lower(line) \in Yes =>
                    frame'.result = "Human feedback: 'yes', this is a new document."
             /\ lower(line) \in No =>
                    frame'.result = "Human feedback: 'no', this is not a new document."]_vars

C20_Witness ==
    /\ pc = "returned"
    /\ frame.lines = <<<<"j", "a">>, <<"y", "e", "s", " ">>, <<"N", "O">>>>
    /\ frame.result = "Human feedback: 'no', this is not a new document."

\* the save_document call made last
LastCall == frame.calls[Len(frame.calls)]

\* C17: save_document with an empty page_indices returns its error result and
\* leaves every output file as it was, whatever the metadata
C17_EmptySelectionWritesNothing ==
    [][(pc = "save_document" /\ LastCall'.page_indices = <<>>) =>
         /\ LastCall'.result = "Error: No page indices provided to save."
         /\ files' = files
         /\ saved' = saved]_vars

C17_Witness ==
    /\ pc = "save_document"
    /\ Len(frame.calls) = 2
    /\ frame.calls[1].result = SaveOk
    /\ LastCall.page_indices = <<>>
    /\ LastCall.metadata.type = "json value"
    /\ Cardinality(DOMAIN files) = 1

Successful(k) == frame.calls[k].result = SaveOk

SameTriple(a, b) == normalized(frame.calls[a].metadata) = normalized(frame.calls[b].metadata)

\* C18: of two successful saves whose metadata normalizes to the same triple the
\* later replaces the earlier one's file: the directory holds the pages of the
\* latest such save under that name, and fewer files than successful saves
C18_SameTripleOverwrites ==
    pc = "save_document" =>
        \A a, b \in DOMAIN frame.calls :
            (/\ a < b
             /\ Successful(a)
             /\ Successful(b)
             /\ SameTriple(a, b)
             /\ \A c \in DOMAIN frame.calls : (c > b /\ Successful(c)) => ~SameTriple(b, c))
            => /\ files[filename(frame.calls[b].metadata)] = frame.calls[b].page_indices
               /\ Cardinality(DOMAIN files)
                      < Cardinality({k \in DOMAIN frame.calls : Successful(k)})

C18_Witness ==
    /\ pc = "save_document"
    /\ Len(frame.calls) = 2
    /\ Successful(1)
    /\ Successful(2)
    /\ frame.calls[1].metadata.type = "dict"
    /\ frame.calls[2].metadata.type = "json object"
    /\ frame.calls[1].page_indices = <<0>>
    /\ frame.calls[2].page_indices = <<1, 0>>
    /\ Cardinality(DOMAIN files) = 1
    /\ \E name \in DOMAIN files : files[name] = <<1, 0>>

UnknownDate == <<"u", "n", "k", "n", "o", "w", "n", "_", "d", "a", "t", "e">>

\* C22: normalize_date returns exactly eight digits or the unknown-date
\* sentinel, for every input string
C22_DateIsEightDigitsOrSentinel ==
    (pc = "returned" /\ frame.function = "normalize_date") =>
        \/ frame.output = UnknownDate
        \/ Len(frame.output) = 8 /\ AllDigits(frame.output)

\* C23: the title "Invoice #2025/08!!" yields the slug "Invoice_2025_08" and
\* the empty title yields "untitled"
C23_TitleSlug ==
    (pc = "returned" /\ frame.function = "sanitized_title") =>
        /\ frame.input = <<"I", "n", "v", "o", "i", "c", "e", " ", "#", "2", "0", "2", "5",
                           "/", "0", "8", "!", "!">>
               => frame.output = <<"I", "n", "v", "o", "i", "c", "e", "_", "2", "0", "2", "5",
                                   "_", "0", "8">>
        /\ frame.input = <<>> => frame.output = <<"u", "n", "t", "i", "t", "l", "e", "d">>

\* C28: normalize_date and shorten_company are idempotent: normalizing their
\* output again returns that output
C28_NormalizersIdempotent ==
    /\ (pc = "returned" /\ frame.function = "normalize_date")
           => normalize_date(frame.output) = frame.output
    /\ (pc = "returned" /\ frame.function = "shorten_company")
           => shorten_company(frame.output) = frame.output

\* the pages of call k exist on the source
PagesExist(k) ==
    /\ frame.calls[k].page_indices # <<>>
    /\ \A j \in DOMAIN frame.calls[k].page_indices :
           frame.calls[k].page_indices[j] < total_pages

\* C24: whatever a metadata dict holds (missing or empty values, blank strings,
\* a bare legal suffix, punctuation), save_document succeeds and none of the
\* three components of the file name is empty
C24_ComponentsNeverEmpty ==
    pc = "save_document" =>
        \A k \in DOMAIN frame.calls :
            (frame.calls[k].metadata.type = "dict" /\ PagesExist(k)) =>
                /\ Successful(k)
                /\ \A part \in 1..3 : normalized(frame.calls[k].metadata)[part] # <<>>

IsSearch(call) == call.name = "search_for_similar_cases"

\* what the world may answer to a turn when the case store holds no similar case
NoCaseReplies(calls) ==
    {r \in RepliesFor(calls) : \A i \in DOMAIN calls : IsSearch(calls[i]) => r[i] = "none"}

\* C21: search_for_similar_cases always hands a result string back, and after
\* a turn with a search call the controller's state is the one it would have
\* reached had every search answered 'no similar cases found'
C21_SearchSoftFails ==
    [][(pc = "tools" /\ \E i \in DOMAIN PendingCalls : IsSearch(PendingCalls[i])) =>
          /\ \A i \in DOMAIN PendingCalls :
                IsSearch(PendingCalls[i]) =>
                    messages'[Len(messages) + i].content \in
                        {search_for_similar_cases(r) : r \in Replies("search_for_similar_cases")}
          /\ \A replies \in NoCaseReplies(PendingCalls) :
                LET quiet == tool_node(World, replies)
                IN  /\ pc' = "agent"
                    /\ current_page_index' = quiet.current_page_index
                    /\ current_document_pages' = quiet.current_document_pages
                    /\ saved' = quiet.saved
                    /\ files' = quiet.files
                    /\ Len(messages') = Len(quiet.messages)]_vars

C21_Witness ==
    /\ pc = "agent"
    /\ Len(messages) = 3
    /\ messages[2].content = "MongoDB URI not configured. Cannot search for similar cases."
    /\ messages[3].content = "Failed to search for similar cases"
    /\ current_page_index = 0
    /\ total_pages = 1

\* C25: tool_node starts a new document at every save_document call, also at
\* one that returned an error and wrote no file: the call's cursor becomes the
\* in-progress document, the cursor advances, and nothing is saved for it
C25_FailedSaveStillCuts ==
    [][(/\ pc = "tools"
        /\ \E i \in DOMAIN PendingCalls :
              /\ IsSave(PendingCalls[i])
              /\ messages'[Len(messages) + i].content # SaveOk) =>
          LET calls == PendingCalls
              n == Len(calls)
              failed == {i \in 1..n : IsSave(calls[i])
                                        /\ messages'[Len(messages) + i].content # SaveOk}
          IN  /\ Len(appended') = Len(appended) + SavesBefore(calls, n)
              /\ \A i \in failed :
                    appended'[Len(appended) + SavesBefore(calls, i)] = CursorAt(i)
              /\ current_page_index' = current_page_index + SavesBefore(calls, n)
              /\ current_document_pages' = <<current_page_index' - 1>>
              /\ Len(saved') = Len(saved) + SavesBefore(calls, n) - Cardinality(failed)]_vars

C25_Witness ==
    /\ pc = "agent"
    /\ Len(messages) = 2
    /\ messages[1].tool_calls[1].name = "save_document"
    /\ messages[2].content = "Error: No page indices provided to save."
    /\ appended = <<0, 1>>
    /\ current_document_pages = <<1>>
    /\ current_page_index = 2
    /\ saved = <<>>
    /\ files = NoFiles

\* C26: run() hands back the state it was given: the cursor, the in-progress
\* document and total_pages are unchanged on every path
C26_RunKeepsState ==
    [][pc = "run" =>
          /\ current_page_index' = current_page_index
          /\ current_document_pages' = current_document_pages
          /\ total_pages' = total_pages]_vars

C26_Witness ==
    /\ pc = "returned"
    /\ frame.chat = <<"ok">>
    /\ saved = <<<<0>>>>
    /\ DOMAIN files # {}
    /\ current_page_index = 0
    /\ current_document_pages = <<0>>

\* the calls of a response that carry a name
Named(calls) == {i \in DOMAIN calls : calls[i].function.name # NoName}

\* C27: run() keeps the messages it was given as a prefix of the history it
\* returns, appends the assistant message before any tool result, and appends
\* one tool message per named call, in call order: the tool's result, a tool
\* error or the unknown-tool result; a call without a name appends nothing
C27_RunAppendsInOrder ==
    [][pc = "run" =>
          /\ IsPrefix(messages, messages')
          /\ frame'.chat[Len(frame'.chat)] = "ok" =>
                LET calls == frame'.response.message.tool_calls
                    first == IF frame'.response.message = NoMessage
                             THEN Len(messages)
                             ELSE Len(messages) + 1
                IN  /\ Len(messages') = first + Cardinality(Named(calls))
                    /\ frame'.response.message # NoMessage =>
                           messages'[first] = frame'.response.message
                    /\ \A i \in Named(calls) :
                           LET name == calls[i].function.name
                               answer == messages'[first + Cardinality({j \in Named(calls) :
                                                                           j <= i})]
                           IN  /\ answer.role = "tool"
                               /\ answer.tool_call_id = calls[i].id
                               /\ answer.name = name
                               /\ answer.content = "Unknown tool"
                                      <=> name \notin ollama_agent_globals
                               /\ answer.content = "Error calling tool"
                                      <=> /\ name \in ollama_agent_globals
                                          /\ ~ToolFunctionReturns(name,
                                                                  calls[i].function.arguments)]_vars

C27_Witness ==
    /\ pc = "returned"
    /\ Len(frame.response.message.tool_calls) = 2
    /\ frame.response.message.tool_calls[1].function.name = NoName
    /\ frame.response.message.tool_calls[2].function.name = "other_tool"
    /\ Len(messages) = 3
    /\ messages[3].content = "Unknown tool"
    /\ messages[3].tool_call_id = 2

====
